---- MODULE Spec2Model ----
(***************************************************************************)
(* HanziWriter (src/src/HanziWriter.js): the controller that owns the      *)
(* current quiz, the animator, the loading manager and the renderer, and   *)
(* defers every public operation until the character data is loaded.       *)
(*                                                                         *)
(* JavaScript is single threaded: a handler runs to completion, promise    *)
(* reactions run later as microtasks in FIFO order, and timers and pointer *)
(* events run as tasks once the microtask queue is empty.  Host code (a    *)
(* call of the public API, the charDataLoader's answer) may run in a task  *)
(* or in a promise reaction of its own, so it may happen between any two   *)
(* reactions of the library.                                               *)
(*                                                                         *)
(* Animator, LoadingManager, Quiz, CharDataParser and the renderers are    *)
(* required by the file but are not part of it; they are modelled from the *)
(* specification and from the way the file uses them.                      *)
(***************************************************************************)
EXTENDS Integers, Sequences, FiniteSets, TLC

\* ---- bounds ----
MaxLoads == 3      \* loadCharData calls, the constructor's included
MaxOps == 2        \* public operations deferred through _withData
NumChars == 2      \* distinct characters the host may set
MaxDim == 3        \* widths and heights range over 0..MaxDim
MaxGestures == 7   \* user strokes traced in one quiz
MaxPoints == 2     \* points kept of one user stroke

Chars == 1..NumChars
Answers == {"async", "ok", "fail"}
Loads == 1..MaxLoads
Slots == 1..MaxOps
Seq1(n) == [i \in 1..n |-> i]

VARIABLES
  quiz,              \* this._quiz: 0 is null, else the id of a Quiz
  char,              \* this._char
  character,         \* this._character: <<char, data>>, <<>> when unset
  renderer,          \* this._hanziWriterRenderer: 0 is null, else a renderer id
  withDataPromise,   \* this._withDataPromise: index into wd
  loadingFailed,     \* loadingManager.loadingFailed
  isLoading,         \* loadingManager._isLoading
  loadCounter,       \* loadingManager._loadCounter
  loadingPromise,    \* loadingManager._loadingPromise: [state, data]
  hasErrorCb,        \* options.onLoadCharDataError is given
  lastAnimation,     \* animator._lastAnimation: 0 is null, else a slot of anims
  wd,                \* the promises setCharacter returned: [char, state, thens]
  microtasks,        \* the promise job queue
  inflight,          \* charDataLoader requests not yet answered
  quizCancels,       \* per Quiz constructed, the cancel() calls it received
  anims,             \* the animation generations not yet over
  mounted,           \* the renderers mounted on the canvas and not destroyed
  nOps,              \* public operations deferred so far
  ran,               \* the operations whose function has run
  settled,           \* the last load to settle the loading promise: [load, how]
  evRun,             \* the deferred function the latest step ran, if any
  evEffect,          \* the visual effect the latest step applied, if any
  evLoop,            \* what a character loop did in the latest step, if anything
  evFwd,             \* the pointer call the latest step forwarded, if any
  fill,              \* a call of _fillWidthAndHeight: argument, canvas, result
  qz                 \* a Quiz's progress and the host callbacks it has fired

vars == <<quiz, char, character, renderer, withDataPromise, loadingFailed,
          isLoading, loadCounter, loadingPromise, hasErrorCb, lastAnimation,
          wd, microtasks, inflight, quizCancels, anims, mounted, nOps, ran,
          settled, evRun, evEffect, evLoop, evFwd, fill, qz>>

NoLoad == [load |-> 0, how |-> "none"]
NoRun == [id |-> 0, kind |-> "", failed |-> FALSE, after |-> NoLoad,
          reload |-> 0, over |-> ""]
NoLoop == [what |-> "none", active |-> FALSE]
NoFwd == [quiz |-> 0, method |-> "", loading |-> FALSE, failed |-> FALSE,
          cancelled |-> FALSE]

\* The whole state as one record, so that a handler is a function of states
\* and handlers compose the way the calls in the source do.  The ev* fields
\* say what the latest step did, so every step starts with them blank.  sync
\* is how the charDataLoader answers a request made in this step: at once
\* with data ("ok"), at once with an error ("fail"), or later ("async").
S == [quiz |-> quiz, char |-> char, character |-> character,
      renderer |-> renderer, withDataPromise |-> withDataPromise,
      loadingFailed |-> loadingFailed, isLoading |-> isLoading,
      loadCounter |-> loadCounter, loadingPromise |-> loadingPromise,
      hasErrorCb |-> hasErrorCb, lastAnimation |-> lastAnimation,
      wd |-> wd, microtasks |-> microtasks, inflight |-> inflight,
      quizCancels |-> quizCancels, anims |-> anims, mounted |-> mounted,
      nOps |-> nOps, ran |-> ran, settled |-> settled,
      evRun |-> NoRun, evEffect |-> "none", evLoop |-> NoLoop, evFwd |-> NoFwd,
      sync |-> "async"]

Update(t) ==
  LET u == t IN
  /\ quiz' = u.quiz
  /\ char' = u.char
  /\ character' = u.character
  /\ renderer' = u.renderer
  /\ withDataPromise' = u.withDataPromise
  /\ loadingFailed' = u.loadingFailed
  /\ isLoading' = u.isLoading
  /\ loadCounter' = u.loadCounter
  /\ loadingPromise' = u.loadingPromise
  /\ hasErrorCb' = u.hasErrorCb
  /\ lastAnimation' = u.lastAnimation
  /\ wd' = u.wd
  /\ microtasks' = u.microtasks
  /\ inflight' = u.inflight
  /\ quizCancels' = u.quizCancels
  /\ anims' = u.anims
  /\ mounted' = u.mounted
  /\ nOps' = u.nOps
  /\ ran' = u.ran
  /\ settled' = u.settled
  /\ evRun' = u.evRun
  /\ evEffect' = u.evEffect
  /\ evLoop' = u.evLoop
  /\ evFwd' = u.evFwd
  /\ UNCHANGED <<fill, qz>>

Start(t) ==
  /\ quiz = t.quiz
  /\ char = t.char
  /\ character = t.character
  /\ renderer = t.renderer
  /\ withDataPromise = t.withDataPromise
  /\ loadingFailed = t.loadingFailed
  /\ isLoading = t.isLoading
  /\ loadCounter = t.loadCounter
  /\ loadingPromise = t.loadingPromise
  /\ hasErrorCb = t.hasErrorCb
  /\ lastAnimation = t.lastAnimation
  /\ wd = t.wd
  /\ microtasks = t.microtasks
  /\ inflight = t.inflight
  /\ quizCancels = t.quizCancels
  /\ anims = t.anims
  /\ mounted = t.mounted
  /\ nOps = t.nOps
  /\ ran = t.ran
  /\ settled = t.settled
  /\ evRun = t.evRun
  /\ evEffect = t.evEffect
  /\ evLoop = t.evLoop
  /\ evFwd = t.evFwd

NoOp == [id |-> 0, kind |-> "", reloads |-> 0, reload |-> 0]
Job(type, n, ok, data) ==
  [type |-> type, n |-> n, ok |-> ok, data |-> data, op |-> NoOp]
OpJob(type, op) ==
  [type |-> type, n |-> 0, ok |-> TRUE, data |-> 0, op |-> op]

Enqueue(s, jobs) == [s EXCEPT !.microtasks = @ \o jobs]

\* ---- Animation / Animator (collaborator) ----

NoAnim == [kind |-> "", active |-> FALSE, phase |-> "free"]

\* A generation whose promise chain has ended leaves no trace.
Over(s, g) ==
  [s EXCEPT !.anims[g] = NoAnim,
            !.lastAnimation = IF @ = g THEN 0 ELSE @]

\* Animation.cancel(): the generation stops being active.
AnimationCancel(s, g) ==
  [s EXCEPT !.anims[g].active = FALSE]

\* Animator.cancel(): invalidates the current generation, if any.
AnimatorCancel(s) ==
  IF s.lastAnimation # 0 THEN AnimationCancel(s, s.lastAnimation) ELSE s

\* A renderer changes what is drawn on behalf of generation g.
ApplyEffect(s, g) ==
  [s EXCEPT !.evEffect = IF s.lastAnimation = g THEN "current" ELSE "stale"]

\* characterRenderer.animate / show / hide, outlineRenderer.show / hide:
\* null for a cancelled generation, else the first transition starts and a
\* promise for the end of the transitions is returned.
RendererStart(s, g) ==
  IF ~s.anims[g].active
    THEN Over(s, g)
    ELSE ApplyEffect([s EXCEPT !.anims[g].phase = "running"], g)

\* animateForever without its isActive check.
AnimateForeverUnchecked(s, g) ==
  RendererStart([s EXCEPT !.evLoop = [what |-> "iteration",
                                      active |-> s.anims[g].active]], g)

\* animateForever(animation), one iteration of loopCharacterAnimation
\* up to the call of the renderer (lines 83-87).
AnimateForever(s, g) ==
  IF ~s.anims[g].active
    THEN [Over(s, g) EXCEPT !.evLoop = [what |-> "end", active |-> FALSE]]
    ELSE RendererStart([s EXCEPT !.evLoop = [what |-> "iteration",
                                             active |-> s.anims[g].active]], g)

\* The effect function an operation hands to the animator.
EffectFn(s, g) ==
  IF s.anims[g].kind = "loop" THEN AnimateForever(s, g) ELSE RendererStart(s, g)

FreeSlot(s) == CHOOSE g \in Slots :
  /\ s.anims[g].phase = "free"
  /\ \A h \in Slots : s.anims[h].phase = "free" => g <= h

\* Animator.animate(func, options): cancels the current generation, makes a
\* fresh one current and runs func against it.
AnimatorAnimate(s, kind) ==
  LET s1 == AnimatorCancel(s)
      g == FreeSlot(s1)
      s2 == [s1 EXCEPT !.anims[g] = [kind |-> kind, active |-> TRUE,
                                     phase |-> "new"],
                       !.lastAnimation = g]
  IN EffectFn(s2, g)

\* _animate on an animator of its own, not on this._animator: the shared
\* animator neither cancels its generation nor learns of the new one.
AnimateApart(s, kind) ==
  LET g == FreeSlot(s)
  IN EffectFn([s EXCEPT !.anims[g] = [kind |-> kind, active |-> TRUE,
                                      phase |-> "new"]], g)

\* HanziWriter.prototype._animate
Animate(s, kind) == AnimatorAnimate(s, kind)

\* A timed transition of generation g is due: a cancelled generation's
\* transitions are no-ops.
TransitionStep(s, g) ==
  IF s.anims[g].active THEN ApplyEffect(s, g) ELSE s

\* The renderer's promise for generation g resolves.  A plain animation
\* finishes (Animation.finish); the loop goes on to wait (lines 88-89).
TransitionsEnd(s, g) ==
  IF s.anims[g].kind = "loop"
    THEN [s EXCEPT !.anims[g].phase = "delay",
                   !.evLoop = [what |-> "timer", active |-> s.anims[g].active]]
    ELSE Over(s, g)

\* The continuation after the wait does not call animateForever again.
LoopTimerStops(s, g) ==
  [Over(s, g) EXCEPT !.evLoop = [what |-> "end", active |-> s.anims[g].active]]

\* timeout(delayBetweenLoops) is over: the next iteration (line 90).
LoopTimer(s, g) == AnimateForever(s, g)

\* ---- Quiz (collaborator) ----

\* Quiz.cancel(): idempotent; invalidates the animation stream's generation.
QuizCancel(s, q) ==
  LET s1 == [s EXCEPT !.quizCancels[q] = @ + 1]
  IN IF s.quizCancels[q] = 0 THEN AnimatorCancel(s1) ELSE s1

\* new Quiz({animator: this._animator, ...}): the quiz takes over the
\* animation stream with a generation of its own.
NewQuiz(s) ==
  LET s1 == [s EXCEPT !.quizCancels = Append(@, 0)]
  IN [AnimatorAnimate(s1, "quiz") EXCEPT !.quiz = Len(s1.quizCancels)]

\* cancelQuiz that forgets to unset _quiz.
CancelQuizKeeps(s) ==
  IF s.quiz # 0 THEN QuizCancel(s, s.quiz) ELSE s

\* HanziWriter.prototype.cancelQuiz
CancelQuiz(s) ==
  [(IF s.quiz # 0 THEN QuizCancel(s, s.quiz) ELSE s) EXCEPT !.quiz = 0]

\* ---- LoadingManager (collaborator) ----

\* The charDataLoader answers request k for character c
\* (LoadingManager._debouncedLoad): every answer but the one to the most
\* recent request is ignored, and a promise settles once.
LoaderAnswers(s, k, ok, c) ==
  LET s1 == [s EXCEPT !.inflight = @ \ {k}]
  IN IF k = s.loadCounter /\ s.loadingPromise.state = "pending"
       THEN Enqueue([s1 EXCEPT !.loadingPromise.state = "settling"],
                    <<Job("loadSettled", k, ok, c)>>)
       ELSE s1

\* LoadingManager.loadCharData(char): a new loading promise unless a load is
\* under way, loadingFailed reset, the counter advanced, the loader asked.
LoadCharData(s, c) ==
  LET k == s.loadCounter + 1
      s1 == [s EXCEPT !.loadingPromise =
                  IF s.isLoading THEN @ ELSE [state |-> "pending", data |-> 0],
               !.loadingFailed = FALSE,
               !.isLoading = TRUE,
               !.loadCounter = k,
               !.inflight = @ \cup {k}]
  IN IF s.sync = "async" THEN s1 ELSE LoaderAnswers(s1, k, s.sync = "ok", c)

\* The job of the reaction promise k chained on the loading promise.
SettledJob(s, k) ==
  Job("setCharacter", k, s.loadingPromise.state = "fulfilled",
      s.loadingPromise.data)

NoWd == [char |-> 0, state |-> "gone", thens |-> <<>>]

\* A settled promise nobody can reach any more leaves no trace.
Forget(s) ==
  [s EXCEPT !.wd = [k \in Loads |->
     IF k # s.withDataPromise /\ s.wd[k].state \in {"fulfilled", "rejected"}
       THEN NoWd ELSE s.wd[k]]]

\* setCharacter without its call of this._animator.cancel().
SetCharacterKeeps(s, c) ==
  LET s1 == CancelQuiz(s)
      s2 == [s1 EXCEPT !.char = c]
      s4 == [s2 EXCEPT !.mounted = @ \ {s2.renderer}, !.renderer = 0]
      s5 == LoadCharData(s4, c)
      k == s5.loadCounter
      done == s5.loadingPromise.state \in {"fulfilled", "rejected"}
      s6 == [s5 EXCEPT !.wd[k] = [char |-> c,
                                  state |-> IF done THEN "queued" ELSE "pending",
                                  thens |-> <<>>],
                       !.withDataPromise = k]
  IN Forget(IF done THEN Enqueue(s6, <<SettledJob(s6, k)>>) ELSE s6)

\* HanziWriter.prototype.setCharacter
SetCharacter(s, c) ==
  LET s1 == CancelQuiz(s)
      s2 == [s1 EXCEPT !.char = c]
      s3 == AnimatorCancel(s2)
      s4 == [s3 EXCEPT !.mounted = @ \ {s3.renderer}, !.renderer = 0]
      s5 == LoadCharData(s4, c)
      k == s5.loadCounter
      done == s5.loadingPromise.state \in {"fulfilled", "rejected"}
      s6 == [s5 EXCEPT !.wd[k] = [char |-> c,
                                  state |-> IF done THEN "queued" ELSE "pending",
                                  thens |-> <<>>],
                       !.withDataPromise = k]
  IN Forget(IF done THEN Enqueue(s6, <<SettledJob(s6, k)>>) ELSE s6)

\* The loading promise's own reactions (LoadingManager._setupLoadingPromise):
\* loading is over, a failure sets loadingFailed and is reported to
\* onLoadCharDataError, or thrown on when the host gave no such callback.
LoadSettled(s, job) ==
  LET st == IF job.ok \/ s.hasErrorCb THEN "fulfilled" ELSE "rejected"
      s1 == [s EXCEPT !.isLoading = FALSE,
                      !.loadingFailed = IF job.ok THEN @ ELSE TRUE,
                      !.settled = [load |-> job.n,
                                   how |-> IF job.ok THEN "ok" ELSE "failed"],
                      !.loadingPromise = [state |-> st,
                                          data |-> IF job.ok THEN job.data ELSE 0]]
      waiting == SelectSeq(Seq1(MaxLoads), LAMBDA k : s.wd[k].state = "pending")
      s2 == [s1 EXCEPT !.wd = [k \in Loads |->
               IF s.wd[k].state = "pending"
                 THEN [s.wd[k] EXCEPT !.state = "queued"] ELSE s.wd[k]]]
  IN Enqueue(s2, [i \in 1..Len(waiting) |-> SettledJob(s2, waiting[i])])

\* ---- HanziWriter ----

\* The reaction setCharacter chains on the loading promise (lines 130-140).
\* CharDataParser.generateCharacter cannot read strokes out of undefined data.
SetCharacterLoaded(s, job) ==
  LET k == job.n
      threw == ~job.ok \/ (~s.loadingFailed /\ job.data = 0)
      s1 == IF s.loadingFailed \/ threw
              THEN s
              ELSE [s EXCEPT !.character = <<s.wd[k].char, job.data>>,
                             !.renderer = k,
                             !.mounted = @ \cup {k}]
      cbs == s.wd[k].thens
  IN Forget(IF threw
       THEN [s1 EXCEPT !.wd[k].state = "rejected", !.wd[k].thens = <<>>]
       ELSE Enqueue([s1 EXCEPT !.wd[k].state = "fulfilled", !.wd[k].thens = <<>>],
                    [i \in 1..Len(cbs) |-> OpJob("callback", cbs[i])]))

\* this._withDataPromise.then(callback)
ThenWithData(s, op) ==
  LET k == s.withDataPromise
  IN CASE s.wd[k].state \in {"pending", "queued"} ->
            [s EXCEPT !.wd[k].thens = Append(@, op)]
       [] s.wd[k].state = "fulfilled" -> Enqueue(s, <<OpJob("callback", op)>>)
       [] OTHER -> s

\* HanziWriter.prototype._withData
WithData(s, op) ==
  IF s.loadingFailed
    THEN LET s1 == SetCharacter(s, s.char)
         IN Enqueue(s1, <<OpJob("retry", [op EXCEPT !.reloads = @ + 1,
                                                    !.reload = s1.loadCounter])>>)
    ELSE ThenWithData(s, op)

\* quiz() that does not cancel the quiz in place.
QuizFuncOnTop(s) == NewQuiz(s)

\* The function quiz() defers (lines 105-116).
QuizFunc(s) == NewQuiz(CancelQuiz(s))

\* The kind of the generation that is active, "" if none is.
InFlight(s) ==
  IF s.lastAnimation # 0 /\ s.anims[s.lastAnimation].active
    THEN s.anims[s.lastAnimation].kind ELSE ""

\* func(): what the deferred operation does once the data is there.
Func(s, op) ==
  LET s1 == [s EXCEPT !.ran = @ \cup {op.id},
                      !.evRun = [id |-> op.id, kind |-> op.kind,
                                 failed |-> s.loadingFailed,
                                 after |-> s.settled,
                                 reload |-> op.reload,
                                 over |-> InFlight(s)]]
  IN IF op.kind = "quiz" THEN QuizFunc(s1) ELSE Animate(s1, op.kind)

\* The reaction _withData chains on _withDataPromise (lines 188-192).
WithDataCallback(s, op) ==
  IF ~s.loadingFailed THEN Func(s, op) ELSE s

\* The reaction _withData chains on Promise.resolve() (lines 181-186).
WithDataRetry(s, op) ==
  IF ~s.loadingFailed THEN WithData(s, op) ELSE s

\* One invocation of a public operation: its place in the order of
\* invocations and what its function does.
NewOp(s, kind) ==
  [id |-> s.nOps + 1, kind |-> kind, reloads |-> 0, reload |-> 0]

\* HanziWriter.prototype._animateWithData
AnimateWithData(s, kind) ==
  WithData([s EXCEPT !.nOps = @ + 1], NewOp(s, kind))

ShowCharacter(s) == AnimateWithData(s, "fade")
HideCharacter(s) == AnimateWithData(s, "fade")
AnimateCharacter(s) == AnimateWithData(CancelQuiz(s), "animate")
LoopCharacterAnimation(s) == AnimateWithData(CancelQuiz(s), "loop")
ShowOutline(s) == AnimateWithData(s, "fade")
HideOutline(s) == AnimateWithData(s, "fade")

\* HanziWriter.prototype.quiz
QuizOp(s) ==
  WithData([s EXCEPT !.nOps = @ + 1], NewOp(s, "quiz"))

\* this.isLoadingCharData, which the listeners read: nothing assigns it.
IsLoadingCharData(s) == FALSE

\* _forwardToQuiz without its check of this._quiz.
ForwardToQuizUnchecked(s, method) ==
  [s EXCEPT !.evFwd = [quiz |-> s.quiz, method |-> method,
                       loading |-> s.loadCounter \in s.inflight,
                       failed |-> s.loadingFailed,
                       cancelled |-> s.quiz # 0 /\ s.quizCancels[s.quiz] > 0]]

\* HanziWriter.prototype._forwardToQuiz
ForwardToQuiz(s, method) ==
  IF s.quiz = 0
    THEN s
    ELSE [s EXCEPT !.evFwd = [quiz |-> s.quiz, method |-> method,
                              loading |-> s.loadCounter \in s.inflight,
                              failed |-> s.loadingFailed,
                              cancelled |-> s.quizCancels[s.quiz] > 0]]

\* The mousedown, touchstart, mousemove and touchmove listeners.
CanvasListener(s, method) ==
  IF IsLoadingCharData(s) \/ s.quiz = 0 THEN s ELSE ForwardToQuiz(s, method)

\* The mouseup and touchend listeners.
DocumentListener(s) == ForwardToQuiz(s, "endUserStroke")

\* ---- the state after new HanziWriter(element, character, options) ----

Blank ==
  [quiz |-> 0, char |-> 0, character |-> <<>>, renderer |-> 0,
   withDataPromise |-> 0, loadingFailed |-> FALSE, isLoading |-> FALSE,
   loadCounter |-> 0, loadingPromise |-> [state |-> "none", data |-> 0],
   hasErrorCb |-> FALSE, lastAnimation |-> 0,
   wd |-> [k \in Loads |-> NoWd],
   microtasks |-> <<>>, inflight |-> {},
   quizCancels |-> <<>>, anims |-> [g \in Slots |-> NoAnim],
   mounted |-> {}, nOps |-> 0, ran |-> {},
   settled |-> NoLoad,
   evRun |-> NoRun, evEffect |-> "none", evLoop |-> NoLoop, evFwd |-> NoFwd,
   sync |-> "async"]

\* function HanziWriter(element, character, options)
Constructor(c, errCb, a) ==
  [SetCharacter([Blank EXCEPT !.hasErrorCb = errCb, !.sync = a], c)
     EXCEPT !.quiz = 0]

\* ---- options ----

\* width, height and padding of defaultOptions; 0 is null (or any other
\* falsy value), and padding stands for every option that is not a
\* dimension.
DefaultOptions == [width |-> 0, height |-> 0, padding |-> 20]

\* The quiz options of defaultOptions.
QuizOptionsLate == [showHintAfterMisses |-> 4, highlightOnComplete |-> TRUE]
QuizOptions == [showHintAfterMisses |-> 3, highlightOnComplete |-> TRUE]

Min(a, b) == IF a <= b THEN a ELSE b

\* _fillWidthAndHeight that fills in the object it is given.
FillInPlace(options, box) ==
  LET minDim == Min(box.width, box.height)
      filledOpts ==
        IF options.width # 0 /\ options.height = 0
          THEN [options EXCEPT !.height = options.width]
        ELSE IF options.height # 0 /\ options.width = 0
          THEN [options EXCEPT !.width = options.height]
        ELSE IF options.width = 0 /\ options.height = 0
          THEN [options EXCEPT !.width = minDim, !.height = minDim]
        ELSE options
  IN [options |-> filledOpts, filledOpts |-> filledOpts]

\* HanziWriter.prototype._fillWidthAndHeight: the argument object as the
\* call leaves it and the object returned.  box is what
\* this._canvas.svg.getBoundingClientRect() returns.
FillWidthAndHeight(options, box) ==
  LET minDim == Min(box.width, box.height)
      filledOpts ==
        IF options.width # 0 /\ options.height = 0
          THEN [options EXCEPT !.height = options.width]
        ELSE IF options.height # 0 /\ options.width = 0
          THEN [options EXCEPT !.width = options.height]
        ELSE IF options.width = 0 /\ options.height = 0
          THEN [options EXCEPT !.width = minDim, !.height = minDim]
        ELSE options
  IN [options |-> options, filledOpts |-> filledOpts]

\* One call: what was given, what the argument object holds now, the
\* canvas box, and the object returned once the call has been made.
FillCall(given, box) ==
  [given |-> given, options |-> given, box |-> box,
   filledOpts |-> given, called |-> FALSE]

FillReturn(f) ==
  LET r == FillWidthAndHeight(f.options, f.box)
  IN [f EXCEPT !.options = r.options, !.filledOpts = r.filledOpts,
               !.called = TRUE]

\* The call the constructor makes through _assignOptions.
FillDefault == FillReturn(FillCall(DefaultOptions, [width |-> 2, height |-> 1]))

\* ---- Quiz: the stroke state machine (collaborator) ----

\* The character quizzed: three strokes.
QuizStrokes == <<"first", "second", "third">>

Callback(cb, stroke, mistakes, hint) ==
  [cb |-> cb, stroke |-> stroke, mistakes |-> mistakes, hint |-> hint]

\* new Quiz(...): AwaitingStroke(0).  verdicts is what the stroke matcher
\* has answered so far, log the host callbacks fired so far.
QuizStart(opts) ==
  [state |-> "awaiting", strokeIndex |-> 0, mistakes |-> 0, points |-> 0,
   opts |-> opts, verdicts |-> <<>>, log |-> <<>>]

\* Quiz.startUserStroke(point)
StartUserStroke(q) ==
  IF q.state = "awaiting"
    THEN [q EXCEPT !.state = "tracing", !.points = 1] ELSE q

\* Quiz.continueUserStroke(point)
ContinueUserStroke(q) ==
  IF q.state = "tracing"
    THEN [q EXCEPT !.points = Min(@ + 1, MaxPoints)] ELSE q

\* Quiz.endUserStroke(), the stroke matcher answering accepted.
EndUserStroke(q, accepted) ==
  LET i == q.strokeIndex
      q1 == [q EXCEPT !.points = 0, !.verdicts = Append(@, accepted)]
      last == i + 1 = Len(QuizStrokes)
      misses == q.mistakes + 1
      hint == misses >= q.opts.showHintAfterMisses
  IN IF q.state # "tracing" THEN q
     ELSE IF accepted
       THEN [q1 EXCEPT !.strokeIndex = i + 1,
                       !.mistakes = 0,
                       !.state = IF last THEN "complete" ELSE "awaiting",
                       !.log = @ \o <<Callback("accept", i, 0, FALSE)>>
                                 \o (IF last
                                       THEN <<Callback("complete", i + 1, 0, FALSE)>>
                                       ELSE <<>>)]
       ELSE [q1 EXCEPT !.mistakes = misses,
                       !.state = "awaiting",
                       !.log = Append(@, Callback("reject", i, misses, hint))]

\* Quiz.cancel(): the trace is discarded and the quiz is inert.
CancelTrace(q) ==
  [q EXCEPT !.state = "cancelled", !.points = 0]

Init ==
  /\ \E errCb \in BOOLEAN, a \in Answers : Start(Constructor(1, errCb, a))
  /\ fill = FillDefault
  /\ qz = QuizStart(QuizOptions)

\* ---- steps ----

Idle == microtasks = <<>>
Rest == [S EXCEPT !.microtasks = Tail(@)]
Host(a) == [S EXCEPT !.sync = a]
MayDefer == nOps < MaxOps /\ (loadingFailed => loadCounter < MaxLoads)

RunLoadSettled ==
  /\ microtasks # <<>> /\ Head(microtasks).type = "loadSettled"
  /\ Update(LoadSettled(Rest, Head(microtasks)))

RunSetCharacterLoaded ==
  /\ microtasks # <<>> /\ Head(microtasks).type = "setCharacter"
  /\ Update(SetCharacterLoaded(Rest, Head(microtasks)))

RunWithDataCallback ==
  /\ microtasks # <<>> /\ Head(microtasks).type = "callback"
  /\ Update(WithDataCallback(Rest, Head(microtasks).op))

RunWithDataRetry ==
  /\ microtasks # <<>> /\ Head(microtasks).type = "retry"
  /\ Update(WithDataRetry(Rest, Head(microtasks).op))

CallShowCharacter == MayDefer /\ \E a \in Answers : Update(ShowCharacter(Host(a)))
CallHideCharacter == MayDefer /\ \E a \in Answers : Update(HideCharacter(Host(a)))
CallAnimateCharacter == MayDefer /\ \E a \in Answers : Update(AnimateCharacter(Host(a)))
CallLoopCharacterAnimation == MayDefer /\ \E a \in Answers : Update(LoopCharacterAnimation(Host(a)))
CallShowOutline == MayDefer /\ \E a \in Answers : Update(ShowOutline(Host(a)))
CallHideOutline == MayDefer /\ \E a \in Answers : Update(HideOutline(Host(a)))
CallQuiz == MayDefer /\ \E a \in Answers : Update(QuizOp(Host(a)))
CallCancelQuiz == Update(CancelQuiz(S))
CallSetCharacter ==
  /\ loadCounter < MaxLoads
  /\ \E c \in Chars, a \in Answers : Update(SetCharacter(Host(a), c))

LoadSucceeds == \E k \in inflight : Update(LoaderAnswers(S, k, TRUE, wd[k].char))
LoadFails == \E k \in inflight : Update(LoaderAnswers(S, k, FALSE, wd[k].char))

Transition ==
  /\ Idle
  /\ \E g \in Slots : anims[g].phase = "running" /\ Update(TransitionStep(S, g))

TransitionsDone ==
  /\ Idle
  /\ \E g \in Slots : anims[g].phase = "running" /\ Update(TransitionsEnd(S, g))

\* A cancelled generation's renderer promise may also never resolve.
TransitionsAbandoned ==
  /\ Idle
  /\ \E g \in Slots : /\ anims[g].phase = "running" /\ ~anims[g].active
                      /\ Update(Over(S, g))

LoopTimerFires ==
  /\ Idle
  /\ \E g \in Slots : anims[g].phase = "delay" /\ Update(LoopTimer(S, g))

MouseDown == Idle /\ Update(CanvasListener(S, "startUserStroke"))
TouchStart == Idle /\ Update(CanvasListener(S, "startUserStroke"))
MouseMove == Idle /\ Update(CanvasListener(S, "continueUserStroke"))
TouchMove == Idle /\ Update(CanvasListener(S, "continueUserStroke"))
MouseUp == Idle /\ Update(DocumentListener(S))
TouchEnd == Idle /\ Update(DocumentListener(S))

Next ==
  \/ RunLoadSettled
  \/ RunSetCharacterLoaded
  \/ RunWithDataCallback
  \/ RunWithDataRetry
  \/ CallShowCharacter
  \/ CallHideCharacter
  \/ CallAnimateCharacter
  \/ CallLoopCharacterAnimation
  \/ CallShowOutline
  \/ CallHideOutline
  \/ CallQuiz
  \/ CallCancelQuiz
  \/ CallSetCharacter
  \/ LoadSucceeds
  \/ LoadFails
  \/ Transition
  \/ TransitionsDone
  \/ TransitionsAbandoned
  \/ LoopTimerFires
  \/ MouseDown
  \/ TouchStart
  \/ MouseMove
  \/ TouchMove
  \/ MouseUp
  \/ TouchEnd

Spec == Init /\ [][Next]_vars

\* The event loop runs every queued promise reaction and fires every timer
\* that is due; the renderer's animations complete.
Fairness ==
  /\ WF_vars(RunLoadSettled)
  /\ WF_vars(RunSetCharacterLoaded)
  /\ WF_vars(RunWithDataCallback)
  /\ WF_vars(RunWithDataRetry)
  /\ WF_vars(TransitionsDone)
  /\ WF_vars(LoopTimerFires)

\* A host that loops the character animation and starts quizzes, and a
\* surface without pointer events: the behaviours of Spec in which a
\* character loop is started, superseded by a loop or a quiz, or left alone.
LoopNext ==
  \/ RunLoadSettled
  \/ RunSetCharacterLoaded
  \/ RunWithDataCallback
  \/ RunWithDataRetry
  \/ CallLoopCharacterAnimation
  \/ CallQuiz
  \/ LoadSucceeds
  \/ LoadFails
  \/ Transition
  \/ TransitionsDone
  \/ TransitionsAbandoned
  \/ LoopTimerFires

LoopSpec == Init /\ [][LoopNext]_vars /\ Fairness

\* ---- _fillWidthAndHeight on its own ----

Dims == 0..MaxDim
OptionSets == [width : Dims, height : Dims, padding : {10, 20}]
Boxes == [width : Dims, height : Dims]

FillInit ==
  /\ Start(Constructor(1, FALSE, "async"))
  /\ qz = QuizStart(QuizOptions)
  /\ \E o \in OptionSets, b \in Boxes : fill = FillCall(o, b)

CallFillWidthAndHeight ==
  /\ ~fill.called
  /\ fill' = FillReturn(fill)
  /\ UNCHANGED <<quiz, char, character, renderer, withDataPromise,
                 loadingFailed, isLoading, loadCounter, loadingPromise,
                 hasErrorCb, lastAnimation, wd, microtasks, inflight,
                 quizCancels, anims, mounted, nOps, ran, settled, evRun,
                 evEffect, evLoop, evFwd, qz>>

FillSpec == FillInit /\ [][CallFillWidthAndHeight]_vars

\* ---- one quiz and the strokes traced in it ----

QuizInit ==
  /\ Start(Constructor(1, FALSE, "async"))
  /\ fill = FillDefault
  /\ qz = QuizStart(QuizOptions)

Traced(q) ==
  /\ qz' = q
  /\ UNCHANGED <<quiz, char, character, renderer, withDataPromise,
                 loadingFailed, isLoading, loadCounter, loadingPromise,
                 hasErrorCb, lastAnimation, wd, microtasks, inflight,
                 quizCancels, anims, mounted, nOps, ran, settled, evRun,
                 evEffect, evLoop, evFwd, fill>>

PointerDown == Len(qz.verdicts) < MaxGestures /\ Traced(StartUserStroke(qz))
PointerMove == Traced(ContinueUserStroke(qz))
PointerUp == \E accepted \in BOOLEAN : Traced(EndUserStroke(qz, accepted))
QuizCancelled == qz.state # "cancelled" /\ Traced(CancelTrace(qz))

QuizNext == PointerDown \/ PointerMove \/ PointerUp \/ QuizCancelled

QuizSpec == QuizInit /\ [][QuizNext]_vars

\* ---- the claims ----

Quizzes == 1..Len(quizCancels)
Live(g) == anims[g].phase # "free"
Active == {g \in Slots : anims[g].active}

\* C1: every Quiz this instance constructed, other than the one in _quiz,
\* has had cancel() called on it; so at most one is un-cancelled, and when
\* quiz() installs a new one all the earlier ones are cancelled.
C1_OneLiveQuiz ==
  /\ \A q \in Quizzes : q # quiz => quizCancels[q] >= 1
  /\ Cardinality({q \in Quizzes : quizCancels[q] = 0}) <= 1

\* quiz() has just installed a second Quiz and the first one is cancelled.
C1_Witness ==
  /\ evRun.kind = "quiz" /\ quiz = 2 /\ quizCancels[1] >= 1

\* C2: at most one animation generation is active, it is the animator's
\* current one, and no visual effect is applied by any other generation.
C2_OneActiveGeneration ==
  /\ Cardinality(Active) <= 1
  /\ \A g \in Active : g = lastAnimation
  /\ evEffect # "stale"

\* An operation's animation has started while an earlier one was in flight:
\* the earlier one is cancelled and the effect applied is the new one's.
C2_Witness ==
  /\ evRun.kind \in {"fade", "animate", "loop"}
  /\ evRun.over \in {"fade", "animate", "loop"}
  /\ evEffect = "current"
  /\ \E g \in Slots : Live(g) /\ ~anims[g].active /\ anims[g].phase = "running"

C5_IterationChecksGeneration ==
  evLoop.what = "iteration" => evLoop.active

\* The loop's timer has fired after its generation was cancelled, and the
\* loop ended there instead of starting an iteration.
C5_Witness ==
  evLoop.what = "end"

\* C10: cancelQuiz() twice in a row leaves the state cancelQuiz() once
\* leaves, with _quiz null and cancel() called once on the quiz that was
\* active; with no quiz active it changes nothing; no Quiz ever receives
\* cancel() twice.
C10_CancelQuizIdempotent ==
  /\ CancelQuiz(CancelQuiz(S)) = CancelQuiz(S)
  /\ CancelQuiz(S).quiz = 0
  /\ quiz # 0 => CancelQuiz(CancelQuiz(S)).quizCancels[quiz] = quizCancels[quiz] + 1
  /\ quiz = 0 => CancelQuiz(S) = S
  /\ \A q \in Quizzes : quizCancels[q] <= 1

\* A quiz is active, so the first of the two calls cancels it.
C10_Witness ==
  /\ quiz # 0 /\ quizCancels[quiz] = 0
  /\ CancelQuiz(S).quizCancels[quiz] = 1

\* The operations waiting for their data: chained on a promise or queued.
PendingOps ==
  UNION {{wd[k].thens[i] : i \in 1..Len(wd[k].thens)} : k \in Loads}
  \cup {microtasks[i].op : i \in {j \in 1..Len(microtasks) :
                                  microtasks[j].type \in {"callback", "retry"}}}

\* C4: a deferred function never runs while loadingFailed is true, and once
\* a load has failed none runs until a later load has settled with data.
C4_NoRunAfterFailure ==
  evRun.id # 0 => ~evRun.failed /\ evRun.after.how # "failed"

\* C7: no pointer call reaches a quiz while the data of the current
\* character is awaited or after its load has failed.
C7_NoStrokeWhileLoading ==
  evFwd.method # "" => ~evFwd.loading /\ ~evFwd.failed

\* C6 (first half): the loop sets its delayBetweenLoops timer only while
\* its generation is active.
C6_NoTimerAfterCancel ==
  evLoop.what = "timer" => evLoop.active

\* C8: when the function quiz() deferred has run, a new quiz is in place
\* and no generation of animateCharacter or loopCharacterAnimation is
\* active; no generation but the current one applies a visual effect, and
\* a loop whose generation is cancelled starts no iteration.
C8_QuizInvalidatesAnimation ==
  /\ evRun.kind = "quiz" =>
        /\ quiz # 0 /\ quizCancels[quiz] = 0
        /\ \A g \in Slots : anims[g].kind \in {"animate", "loop"} => ~anims[g].active
  /\ evEffect # "stale"
  /\ evLoop.what = "iteration" => evLoop.active

\* A quiz has started while a character animation or loop was in flight.
C8_Witness ==
  /\ evRun.kind = "quiz" /\ evRun.over \in {"animate", "loop"}
  /\ \E g \in Slots : anims[g].kind \in {"animate", "loop"} /\ Live(g)

\* C9: an operation invoked after a failed load reloads the same character,
\* once; its function runs at most once, and not when that reload failed.
C9_ReloadThenRun ==
  /\ [](\A op \in PendingOps : op.reloads <= 1)
  /\ [][nOps' = nOps + 1 /\ loadingFailed =>
          /\ loadCounter' = loadCounter + 1
          /\ char' = char /\ wd'[loadCounter'].char = char]_vars
  /\ [][nOps' = nOps + 1 /\ ~loadingFailed => loadCounter' = loadCounter]_vars
  /\ [][evRun'.id # 0 => evRun'.id \notin ran]_vars
  /\ [](evRun.reload # 0 /\ evRun.after.load = evRun.reload =>
          evRun.after.how = "ok")

Methods == {"startUserStroke", "continueUserStroke", "endUserStroke"}

\* C11: with no quiz active every pointer event leaves the whole state as
\* it is, and no step forwards a stroke call to anything but a quiz.
C11_NoQuizNoEffect ==
  /\ quiz = 0 => /\ \A m \in Methods : CanvasListener(S, m) = S
                 /\ DocumentListener(S) = S
  /\ evFwd.method # "" => evFwd.quiz # 0

\* A pointer event arrives after the quiz that was active has been cancelled.
C11_Witness ==
  /\ quiz = 0 /\ Idle /\ quizCancels # <<>>
  /\ DocumentListener(S) = S
  /\ evFwd = NoFwd

\* C13: when the function of animateCharacter or loopCharacterAnimation
\* runs, no quiz is active.
C13_NoQuizWhenAnimationStarts ==
  evRun.kind \in {"animate", "loop"} => quiz = 0

\* C14: the deferred functions run in the order in which their operations
\* were invoked.
C14_RunInOrder ==
  evRun.id # 0 => \A i \in ran : i <= evRun.id

\* Every request has been answered and every reaction has run.
Quiet == inflight = {} /\ microtasks = <<>>

\* C15: once every load has completed, all of them with data, _character
\* is the character of the latest setCharacter call (_char) with that
\* character's data, and the renderer made for it is the one in place.
C15_LatestCharacterShown ==
  Quiet /\ ~loadingFailed /\ settled.how = "ok" =>
    /\ character = <<char, char>>
    /\ renderer = withDataPromise /\ renderer \in mounted

\* C16: at most one renderer is mounted, and it is the one in
\* _hanziWriterRenderer.
C16_OneRendererMounted ==
  Cardinality(mounted) <= 1 /\ mounted \subseteq {renderer}

\* C17: the quiz in _quiz has not been cancelled, so a stroke call is
\* forwarded only to the quiz in _quiz and never to a cancelled one.
C17_NoStrokeToCancelledQuiz ==
  /\ quiz # 0 => quizCancels[quiz] = 0
  /\ evFwd.method # "" => evFwd.quiz = quiz /\ ~evFwd.cancelled

\* A stroke call reaches the second quiz after the first has been cancelled.
C17_Witness ==
  /\ evFwd.method # "" /\ evFwd.quiz = 2
  /\ quizCancels[1] >= 1

\* C18: whenever a character loop's generation is active, the loop starts
\* another iteration later on unless its generation is cancelled first; so
\* a loop that is never cancelled starts iterations for ever.
C18_LoopRepeats ==
  \A g \in Slots :
    (anims[g].kind = "loop" /\ anims[g].active)
      ~> \/ evLoop.what = "iteration" /\ evLoop.active
         \/ Live(g) /\ ~anims[g].active

\* The loop's timer has fired and started the next iteration.
C18_Witness ==
  /\ evLoop.what = "iteration" /\ evLoop.active
  /\ evRun.id = 0
  /\ \E g \in Slots : anims[g].kind = "loop" /\ anims[g].active
                      /\ anims[g].phase = "running"

\* C19: _fillWidthAndHeight leaves its argument as it was and returns an
\* object with every other option copied; with one of width and height
\* given the other equals it, with both given both are as given, with
\* neither given both are the smaller dimension of the canvas box.
C19_FillWidthAndHeight ==
  fill.called =>
    LET o == fill.given
        f == fill.filledOpts
        minDim == Min(fill.box.width, fill.box.height)
    IN /\ fill.options = o
       /\ f.padding = o.padding
       /\ o.width # 0 /\ o.height = 0 => f.width = o.width /\ f.height = o.width
       /\ o.height # 0 /\ o.width = 0 => f.width = o.height /\ f.height = o.height
       /\ o.width # 0 /\ o.height # 0 => f.width = o.width /\ f.height = o.height
       /\ o.width = 0 /\ o.height = 0 => f.width = minDim /\ f.height = minDim

\* The call has been made with only a height given, and with neither
\* dimension given on a canvas wider than high.
C19_Witness ==
  /\ fill.called
  /\ fill.given.width = 0
  /\ \/ fill.given.height = 2 /\ fill.filledOpts.width = 2
     \/ /\ fill.given.height = 0 /\ fill.box.width > fill.box.height
        /\ fill.filledOpts.width = fill.box.height /\ fill.box.height > 0

\* The strokes of the scenario: two accepted, three rejected, one accepted.
ScenarioVerdicts == <<TRUE, TRUE, FALSE, FALSE, FALSE, TRUE>>

====
